---- MODULE Spec2Model ----
(***************************************************************************)
(* csv-merge: merging CSV files with different column sets into one CSV,   *)
(* each row tagged with the enterprise derived from its file's name.       *)
(*                                                                         *)
(* File names and paths are sequences of one-character strings, so that    *)
(* basename, indexOf, substring, toLowerCase and endsWith are computed     *)
(* character by character.  Column names and cell values are strings.  A   *)
(* JavaScript object (a CSV row, a merged record) is a sequence of         *)
(* <<key, value>> pairs in insertion order with unique keys.               *)
(***************************************************************************)
EXTENDS Integers, Sequences, FiniteSets, TLC

VARIABLES
    call,            \* pure-function harness: the function applied and its arguments
    ret,             \* pure-function harness: what the call produced
    pc,              \* position of processCsvMerge / mergeCsvFiles
    cfgFile,         \* the column configuration file on disk
    dir,             \* the input directory on disk
    columnConfig,    \* the configuration loadColumnConfig returned
    csvFiles,        \* the paths getCsvFiles returned
    fileIdx,         \* index in csvFiles of the file being processed
    enterprise,      \* the enterprise extracted for the current file
    disk,            \* contents of the files read so far, by index in csvFiles
    openStreams,     \* files whose getCsvHeaders read stream is still open
    result,          \* the ProcessingResult mergeCsvFiles builds
    orderedRecords,  \* what orderRecords returned
    written,         \* what writeCsvFile was invoked with
    thrown,          \* the error processCsvMerge threw
    duplicateResults,\* what checkForDuplicates returned
    summary,         \* the summary processCsvMerge printed
    log              \* the steps performed so far, in order

vars == <<call, ret, pc, cfgFile, dir, columnConfig, csvFiles, fileIdx,
          enterprise, disk, openStreams, result, orderedRecords, written, thrown,
          duplicateResults, summary, log>>

harnessVars == <<call, ret>>

runVars == <<pc, cfgFile, dir, columnConfig, csvFiles, fileIdx, enterprise,
             disk, openStreams, result, orderedRecords, written, thrown,
             duplicateResults, summary, log>>

-----------------------------------------------------------------------------
(* Bounds                                                                  *)

\* Segments "_org" that follow the prefix of a generated file name.
MaxSegs == 2

\* Entries of the input directory.
MaxFiles == 2

\* Data rows of one input file.
MaxRows == 1

\* Columns of a generated configuration.
MaxCols == 2

\* Records handed to orderRecords.
MaxRecords == 2

\* Records handed to checkForDuplicates.
MaxDupRecords == 5

\* Objects on the heap before a function is applied to them.
MaxHeap == 2

-----------------------------------------------------------------------------
(* Strings as character sequences                                          *)

Upper == <<"A", "B", "C", "D", "E", "F", "G", "H", "I", "J", "K", "L", "M",
           "N", "O", "P", "Q", "R", "S", "T", "U", "V", "W", "X", "Y", "Z">>

Lower == <<"a", "b", "c", "d", "e", "f", "g", "h", "i", "j", "k", "l", "m",
           "n", "o", "p", "q", "r", "s", "t", "u", "v", "w", "x", "y", "z">>

ToLowerChar(c) ==
    IF \E k \in 1..Len(Upper) : Upper[k] = c
    THEN Lower[CHOOSE k \in 1..Len(Upper) : Upper[k] = c]
    ELSE c

\* toLowerCase forgotten: the string as it is
ToLowerCaseKeepsCase(s) == s

\* String.prototype.toLowerCase
ToLowerCase(s) == [k \in 1..Len(s) |-> ToLowerChar(s[k])]

\* String.prototype.indexOf for a one-character needle, 0-based, -1 if absent
IndexOf(s, c) ==
    IF \E k \in 1..Len(s) : s[k] = c
    THEN (CHOOSE k \in 1..Len(s) : s[k] = c /\ \A j \in 1..(k - 1) : s[j] # c) - 1
    ELSE -1

\* String.prototype.substring(from, to), 0-based, to exclusive
Substring(s, from, to) == SubSeq(s, from + 1, to)

\* String.prototype.endsWith
EndsWith(s, suffix) ==
    /\ Len(suffix) <= Len(s)
    /\ SubSeq(s, Len(s) - Len(suffix) + 1, Len(s)) = suffix

\* The characters of a sequence as one string
RECURSIVE Join(_)
Join(s) == IF s = <<>> THEN "" ELSE Head(s) \o Join(Tail(s))

Slash == "/"

\* The part of a path after its last "/" (paths here never end in "/")
LastSegment(p) ==
    IF \E k \in 1..Len(p) : p[k] = Slash
    THEN LET last == CHOOSE k \in 1..Len(p) :
                        p[k] = Slash /\ \A j \in (k + 1)..Len(p) : p[j] # Slash
         IN  SubSeq(p, last + 1, Len(p))
    ELSE p

\* path.basename(p, ext): a path equal to ext gives ""; a last segment that
\* is longer than ext and ends with it loses it; any other stays whole
Basename(p, ext) ==
    IF ext # <<>> /\ p = ext THEN <<>>
    ELSE LET seg == LastSegment(p)
         IN  IF ext # <<>> /\ Len(seg) > Len(ext) /\ EndsWith(seg, ext)
             THEN SubSeq(seg, 1, Len(seg) - Len(ext))
             ELSE seg

\* path.join(dir, file)
PathJoin(d, f) == d \o <<Slash>> \o f

DotCsv == <<".", "c", "s", "v">>

-----------------------------------------------------------------------------
(* JavaScript values                                                       *)

\* The value of a property that an object does not have
Undefined == "<undefined>"

\* The properties every plain object inherits from Object.prototype; their
\* values are functions or objects, hence truthy and not strings
ObjectPrototypeProps ==
    {"constructor", "toString", "toLocaleString", "valueOf", "hasOwnProperty",
     "isPrototypeOf", "propertyIsEnumerable", "__proto__", "__defineGetter__",
     "__defineSetter__", "__lookupGetter__", "__lookupSetter__"}

Inherited(key) == "[inherited " \o key \o "]"

IsInherited(v) == \E key \in ObjectPrototypeProps : v = Inherited(key)

\* JavaScript truthiness of a string-or-undefined value
Truthy(v) == v # Undefined /\ v # ""

-----------------------------------------------------------------------------
(* utils.ts                                                                *)

ENTERPRISE_MAPPING ==
    ("ghec" :> "GHEC" @@ "ghec-emu" :> "GHEC-EMU" @@ "ghes" :> "GHES")

\* ENTERPRISE_MAPPING[key]: an own property, else one inherited from
\* Object.prototype, else undefined
MappingLookup(key) ==
    IF key \in DOMAIN ENTERPRISE_MAPPING THEN ENTERPRISE_MAPPING[key]
    ELSE IF key \in ObjectPrototypeProps THEN Inherited(key)
    ELSE Undefined

Return(v) == [kind |-> "return", value |-> v]
Throw(e)  == [kind |-> "throw", value |-> e]

InvalidFilenameFormat   == "Invalid filename format"
UnknownEnterprisePrefix == "Unknown enterprise prefix"

\* The prefix extractEnterprise looks up: the basename up to its first "_",
\* lowercased
EnterprisePrefix(filename) ==
    LET basename == Basename(filename, DotCsv)
    IN  Join(ToLowerCase(Substring(basename, 0, IndexOf(basename, "_"))))

ExtractEnterprise(filename) ==
    LET basename        == Basename(filename, DotCsv)
        firstUnderscore == IndexOf(basename, "_")
    IN  IF firstUnderscore = -1 THEN Throw(InvalidFilenameFormat)
        ELSE LET found == MappingLookup(EnterprisePrefix(filename))
             IN  IF ~Truthy(found) THEN Throw(UnknownEnterprisePrefix)
                 ELSE Return(found)

-----------------------------------------------------------------------------
(* Records: JavaScript objects with string keys                            *)

Keys(rec) == [k \in 1..Len(rec) |-> rec[k][1]]

HasOwn(rec, key) == \E k \in 1..Len(rec) : rec[k][1] = key

\* key in rec: own or inherited
HasProperty(rec, key) == HasOwn(rec, key) \/ key \in ObjectPrototypeProps

\* rec[key]: the own value, else the inherited one, else undefined
Get(rec, key) ==
    IF HasOwn(rec, key)
    THEN rec[CHOOSE k \in 1..Len(rec) : rec[k][1] = key][2]
    ELSE IF key \in ObjectPrototypeProps THEN Inherited(key)
    ELSE Undefined

\* rec[key] = value: an existing key keeps its place, a new key goes last;
\* assigning a string to __proto__ creates no property
Set(rec, key, value) ==
    IF key = "__proto__" THEN rec
    ELSE IF HasOwn(rec, key)
    THEN [k \in 1..Len(rec) |-> IF rec[k][1] = key THEN <<key, value>> ELSE rec[k]]
    ELSE Append(rec, <<key, value>>)

\* a || b
OrElse(a, b) == IF Truthy(a) THEN a ELSE b

\* { ...target, ...source }: the entries of source assigned in order
RECURSIVE Spread(_, _)
Spread(target, source) ==
    IF source = <<>> THEN target
    ELSE Spread(Set(target, source[1][1], source[1][2]), Tail(source))

Range(seq) == { seq[k] : k \in 1..Len(seq) }

-----------------------------------------------------------------------------
(* merger.ts: configuration                                                *)

\* A field of the parsed configuration: absent, a falsy value that is not an
\* array (false, 0, ""), an array, or another truthy value
Absent     == [t |-> "absent", items |-> <<>>]
Falsy      == [t |-> "falsy", items |-> <<>>]
Other      == [t |-> "other", items |-> <<>>]
Array(seq) == [t |-> "array", items |-> seq]

ConfigFileMissing == "Column configuration file does not exist"
ConfigNotJson     == "JSON.parse failed"
ColumnsRequired   == "\"columns\" array is required"
RemoveNotArray    == "\"columnsToRemove\" must be an array if specified"
DuplicateNotArray == "\"duplicateCheckColumns\" must be an array if specified"

\* loadColumnConfig: the parsed object as it is, or the error thrown
LoadColumnConfig(file) ==
    IF ~file.exists THEN Throw(ConfigFileMissing)
    ELSE IF ~file.parses THEN Throw(ConfigNotJson)
    ELSE IF file.columns.t # "array" THEN Throw(ColumnsRequired)
    ELSE IF file.columnsToRemove.t = "other" THEN Throw(RemoveNotArray)
    ELSE IF file.duplicateCheckColumns.t = "other" THEN Throw(DuplicateNotArray)
    ELSE Return([columns |-> file.columns.items,
                 columnsToRemove |-> file.columnsToRemove,
                 duplicateCheckColumns |-> file.duplicateCheckColumns])

\* columnConfig.columnsToRemove || []
ColumnsToRemove(config) == config.columnsToRemove.items

\* columnConfig.duplicateCheckColumns && columnConfig.duplicateCheckColumns.length > 0
DuplicateCheckConfigured(config) == Len(config.duplicateCheckColumns.items) > 0

-----------------------------------------------------------------------------
(* merger.ts: reconciliation of a file's headers                           *)

\* Messages of result.errors: a warning carries the warning marker, the
\* file's basename and the unexpected columns; an error carries the file's
\* basename (none for a directory error) and the underlying cause
\* the warning text written without the marker
WarningWithoutMarker(file, columns) ==
    [kind |-> "note", file |-> file, columns |-> columns, cause |-> ""]

WarningMsg(file, columns) ==
    [kind |-> "warning", file |-> file, columns |-> columns, cause |-> ""]
FileErrorMsg(file, cause) ==
    [kind |-> "file error", file |-> file, columns |-> <<>>, cause |-> cause]
DirErrorMsg(cause) ==
    [kind |-> "error", file |-> <<>>, columns |-> <<>>, cause |-> cause]

\* the marker is never recognised
MarkerNeverFound(msg) == FALSE

\* error.includes(warning marker)
HasWarningMarker(msg) == msg.kind = "warning"

\* unexpected whenever not configured, also when marked for removal
UnexpectedIgnoringRemoval(headers, config) ==
    SelectSeq(headers, LAMBDA h : h \notin Range(config.columns))

UnexpectedColumns(headers, config) ==
    SelectSeq(headers, LAMBDA h : h \notin Range(config.columns)
                                  /\ h \notin Range(ColumnsToRemove(config)))

RemovedColumns(headers, config) ==
    SelectSeq(headers, LAMBDA h : h \in Range(ColumnsToRemove(config)))

\* one warning for each unexpected column instead of one for the file
ValidateOneWarningPerColumn(filePath, headers, config) ==
    LET unexpectedColumns == UnexpectedColumns(headers, config)
    IN  [filteredHeaders |->
            SelectSeq(headers, LAMBDA h : h \notin Range(ColumnsToRemove(config))),
         warnings |->
            [k \in 1..Len(unexpectedColumns) |->
                WarningMsg(Basename(filePath, <<>>), <<unexpectedColumns[k]>>)]]

ValidateAndFilterColumns(filePath, headers, config) ==
    LET unexpectedColumns == UnexpectedColumns(headers, config)
    IN  [filteredHeaders |->
            SelectSeq(headers, LAMBDA h : h \notin Range(ColumnsToRemove(config))),
         warnings |->
            IF Len(unexpectedColumns) > 0
            THEN <<WarningMsg(Basename(filePath, <<>>), unexpectedColumns)>>
            ELSE <<>>]

RECURSIVE FilterInto(_, _, _)
FilterInto(filteredRecord, entries, columnsToRemove) ==
    IF entries = <<>> THEN filteredRecord
    ELSE FilterInto(
            IF entries[1][1] \notin columnsToRemove
            THEN Set(filteredRecord, entries[1][1], entries[1][2])
            ELSE filteredRecord,
            Tail(entries), columnsToRemove)

FilterRecord(record, columnsToRemove) == FilterInto(<<>>, record, columnsToRemove)

\* { Enterprise: enterprise, ...filteredRecord }
TransformRecord(record, tag, columnsToRemove) ==
    Spread(<<<<"Enterprise", tag>>>>, FilterRecord(record, columnsToRemove))

-----------------------------------------------------------------------------
(* merger.ts: ordering                                                     *)

OrderedColumns(config) == <<"Enterprise">> \o config.columns

RECURSIVE AssignColumns(_, _, _)
AssignColumns(orderedRecord, columns, record) ==
    IF columns = <<>> THEN orderedRecord
    ELSE AssignColumns(Set(orderedRecord, columns[1], OrElse(Get(record, columns[1]), "")),
                       Tail(columns), record)

OrderRecord(record, config) ==
    AssignColumns(<<<<"Enterprise", "">>>>, OrderedColumns(config), record)

\* the map starts at the second record
OrderRecordsSkipsFirst(records, config) ==
    [k \in 1..(Len(records) - 1) |-> OrderRecord(records[k + 1], config)]

OrderRecords(records, config) ==
    [k \in 1..Len(records) |-> OrderRecord(records[k], config)]

-----------------------------------------------------------------------------
(* merger.ts: duplicate check                                              *)

\* The values whose trim() is the empty string
WhitespaceOnly == {"", " ", "  "}

TrimIsEmpty(value) == value \in WhitespaceOnly

NotAString == "TypeError: value.trim is not a function"

\* record[column] || ""
CheckedValue(record, column) == OrElse(Get(record, column), "")

\* records.length > 0 && column in records[0]
ColumnExists(records, column) ==
    Len(records) > 0 /\ HasProperty(records[1], column)

\* the header row forgotten: the first record is row 1
RowNumberWithoutHeader(index) == index + 1

\* index + 2: 1-based, after the header row
RowNumber(index) == index + 2

\* valueMap after the records up to index n, in insertion order
RECURSIVE ValueMap(_, _, _)
ValueMap(records, column, n) ==
    IF n = 0 THEN <<>>
    ELSE LET before    == ValueMap(records, column, n - 1)
             value     == CheckedValue(records[n], column)
             rowNumber == RowNumber(n - 1)
         IN  IF TrimIsEmpty(value) THEN before
             ELSE IF \E k \in 1..Len(before) : before[k].value = value
             THEN [k \in 1..Len(before) |->
                     IF before[k].value = value
                     THEN [value |-> value, count |-> before[k].count + 1,
                           rowNumbers |-> Append(before[k].rowNumbers, rowNumber)]
                     ELSE before[k]]
             ELSE Append(before, [value |-> value, count |-> 1,
                                  rowNumbers |-> <<rowNumber>>])

\* the entries left in insertion order
SortNotApplied(entries) == entries

\* Array.prototype.sort((a, b) => b.count - a.count): stable
RECURSIVE SortByCountDesc(_)
SortByCountDesc(entries) ==
    IF Len(entries) <= 1 THEN entries
    ELSE LET sorted == SortByCountDesc(SubSeq(entries, 1, Len(entries) - 1))
             last   == entries[Len(entries)]
             ahead  == SelectSeq(sorted, LAMBDA e : e.count >= last.count)
             behind == SelectSeq(sorted, LAMBDA e : e.count < last.count)
         IN  ahead \o <<last>> \o behind

DuplicateValues(records, column) ==
    SortByCountDesc(SelectSeq(ValueMap(records, column, Len(records)),
                              LAMBDA e : e.count > 1))

RECURSIVE DuplicateReport(_, _)
DuplicateReport(records, columnsToCheck) ==
    IF columnsToCheck = <<>> THEN <<>>
    ELSE LET column == Head(columnsToCheck)
             rest   == DuplicateReport(records, Tail(columnsToCheck))
         IN  IF ~ColumnExists(records, column) THEN rest
             ELSE <<[column |-> column,
                     duplicateValues |-> DuplicateValues(records, column)]>> \o rest

\* A checked value that is not a string has no trim method
TrimThrows(records, columnsToCheck) ==
    \E c \in Range(columnsToCheck) :
        /\ ColumnExists(records, c)
        /\ \E k \in 1..Len(records) : IsInherited(CheckedValue(records[k], c))

CheckForDuplicates(records, columnsToCheck) ==
    IF TrimThrows(records, columnsToCheck) THEN Throw(NotAString)
    ELSE [kind |-> "return", value |-> DuplicateReport(records, columnsToCheck)]

-----------------------------------------------------------------------------
(* The state of a run that has not started, for the specifications that    *)
(* apply one function                                                      *)

NoConfig == [columns |-> <<>>, columnsToRemove |-> Absent, duplicateCheckColumns |-> Absent]

EmptyResult ==
    [success |-> FALSE, records |-> <<>>, totalFiles |-> 0, totalRecords |-> 0,
     errors |-> <<>>]

NotThrown == [kind |-> "none", cause |-> "", messages |-> <<>>]

NotWritten == [invoked |-> FALSE, completed |-> FALSE, records |-> <<>>, columns |-> <<>>]

NotPrinted ==
    [printed |-> FALSE, files |-> 0, records |-> 0, columns |-> 0, warnings |-> 0,
     removed |-> 0, duplicateChecks |-> 0]

RunIdle ==
    /\ pc = "idle"
    /\ cfgFile = [exists |-> FALSE, parses |-> FALSE, columns |-> Absent,
                  columnsToRemove |-> Absent, duplicateCheckColumns |-> Absent]
    /\ dir = [exists |-> FALSE, entries |-> <<>>]
    /\ columnConfig = NoConfig
    /\ csvFiles = <<>>
    /\ fileIdx = 0
    /\ enterprise = Undefined
    /\ disk = <<>>
    /\ openStreams = {}
    /\ result = EmptyResult
    /\ orderedRecords = <<>>
    /\ written = NotWritten
    /\ thrown = NotThrown
    /\ duplicateResults = <<>>
    /\ summary = NotPrinted
    /\ log = <<>>

Pending == [kind |-> "pending", value |-> ""]

-----------------------------------------------------------------------------
(* extractEnterprise applied to generated file names                       *)

Prefixes ==
    { <<"g", "h", "e", "c">>, <<"G", "H", "E", "C">>, <<"G", "h", "e", "c">>,
      <<"g", "h", "e", "s">>, <<"G", "h", "E", "s">>,
      <<"g", "h", "e", "c", "-", "e", "m", "u">>,
      <<"G", "H", "E", "C", "-", "E", "M", "U">>,
      <<>>, <<"g", "h">>, <<"g", "h", "e", "c", "x">>, <<"z", "z">>,
      <<"e", "m", "u">>,
      <<"c", "o", "n", "s", "t", "r", "u", "c", "t", "o", "r">>,
      <<"C", "o", "n", "s", "t", "r", "u", "c", "t", "o", "r">>,
      <<"t", "o", "S", "t", "r", "i", "n", "g">> }

Segment == <<"_", "o", "r", "g">>

RECURSIVE Segments(_)
Segments(n) == IF n = 0 THEN <<>> ELSE Segment \o Segments(n - 1)

Extensions == { DotCsv, <<".", "C", "S", "V">>, <<>> }

Directories == { <<>>, <<"i", "n", "_", "d", "/">> }

InitResolve ==
    /\ call \in { [fn |-> "extractEnterprise", filename |-> d \o p \o Segments(n) \o e,
                    prefix |-> p, segs |-> n] :
                    d \in Directories, p \in Prefixes, n \in 0..MaxSegs, e \in Extensions }
    /\ ret = Pending
    /\ RunIdle

CallExtractEnterprise ==
    /\ call.fn = "extractEnterprise"
    /\ ret = Pending
    /\ ret' = ExtractEnterprise(call.filename)
    /\ UNCHANGED <<call, runVars>>

NextResolve == CallExtractEnterprise

SpecResolve == InitResolve /\ [][NextResolve]_vars

\* The spellings of the three mapping keys among Prefixes, with their tags
SpelledTag ==
    ( <<"g", "h", "e", "c">> :> "GHEC" @@ <<"G", "H", "E", "C">> :> "GHEC" @@
      <<"G", "h", "e", "c">> :> "GHEC" @@
      <<"g", "h", "e", "s">> :> "GHES" @@ <<"G", "h", "E", "s">> :> "GHES" @@
      <<"g", "h", "e", "c", "-", "e", "m", "u">> :> "GHEC-EMU" @@
      <<"G", "H", "E", "C", "-", "E", "M", "U">> :> "GHEC-EMU" )

\* C1: a file name whose basename has a "_" and whose part before the first
\* "_" is ghec, ghec-emu or ghes in any letter case resolves to exactly
\* GHEC, GHEC-EMU or GHES, whatever directory, segments and extension it has.
C1_KnownPrefixResolves ==
    (ret # Pending /\ call.fn = "extractEnterprise"
        /\ call.segs >= 1 /\ call.prefix \in DOMAIN SpelledTag)
    => ret = Return(SpelledTag[call.prefix])

C1_Witness ==
    /\ call.fn = "extractEnterprise"
    /\ call.prefix = <<"G", "H", "E", "C", "-", "E", "M", "U">>
    /\ call.segs = 2
    /\ Len(call.filename) > 20
    /\ ret = Return("GHEC-EMU")

\* C2: extractEnterprise returns no value for an unrecognised name: a
\* basename without "_" throws the invalid-filename-format error, and every
\* basename whose lowercased prefix is not ghec, ghec-emu or ghes throws the
\* unknown-prefix error, a different error.
C2_UnrecognisedNameThrows ==
    (ret # Pending /\ call.fn = "extractEnterprise")
    => /\ call.segs = 0 => ret = Throw(InvalidFilenameFormat)
       /\ (call.segs >= 1 /\ call.prefix \notin DOMAIN SpelledTag)
            => ret = Throw(UnknownEnterprisePrefix)
       /\ InvalidFilenameFormat # UnknownEnterprisePrefix

-----------------------------------------------------------------------------
(* utils.ts: getCsvFiles; csv-reader.ts: what the reader delivers          *)

InputDir == <<"i", "n", "_", "d">>

DirMissing == "Input directory does not exist"
NoCsvFiles == "No CSV files found in directory"

IsCsvName(file) == EndsWith(ToLowerCase(file), DotCsv)

GetCsvFiles(d) ==
    IF ~d.exists THEN Throw(DirMissing)
    ELSE LET names == SelectSeq(d.entries, IsCsvName)
         IN  IF Len(names) = 0 THEN Throw(NoCsvFiles)
             ELSE [kind |-> "return",
                   value |-> [k \in 1..Len(names) |-> PathJoin(InputDir, names[k])]]

FileDoesNotExist == "File does not exist"
HeadersReadError == "Error reading CSV headers"
RecordsReadError == "Error reading CSV file"

\* The cell of column header in a row whose cells carry the value v: blank
\* when v is blank, else a text that names its column
Cell(header, v) == IF v = "" THEN "" ELSE header \o ":" \o v

\* The row object csv-parser builds: one property per header, in order
RECURSIVE RowObject(_, _)
RowObject(headers, v) ==
    IF headers = <<>> THEN <<>>
    ELSE Set(RowObject(SubSeq(headers, 1, Len(headers) - 1), v),
             headers[Len(headers)], Cell(headers[Len(headers)], v))

\* the last row is not delivered
FileRecordsWithoutLast(content) ==
    [k \in 1..(Len(content.rows) - 1) |-> RowObject(content.headers, content.rows[k])]

\* readCsvFile resolved: the records of a file
FileRecords(content) ==
    [k \in 1..Len(content.rows) |-> RowObject(content.headers, content.rows[k])]

-----------------------------------------------------------------------------
(* The inputs of a run                                                      *)

ConfigFile(columns, remove, duplicate) ==
    [exists |-> TRUE, parses |-> TRUE, columns |-> columns,
     columnsToRemove |-> remove, duplicateCheckColumns |-> duplicate]

ConfigFiles ==
    { ConfigFile(Array(<<"A", "B">>), Absent, Absent),
      ConfigFile(Array(<<"A", "B">>), Array(<<"X">>), Array(<<"A">>)),
      ConfigFile(Array(<<"A", "B">>), Array(<<"B">>), Array(<<"B", "A">>)),
      ConfigFile(Array(<<>>), Absent, Array(<<"Enterprise">>)),
      ConfigFile(Array(<<"B", "A">>), Array(<<"Enterprise">>), Absent),
      ConfigFile(Array(<<"A">>), Absent, Array(<<"toString">>)),
      ConfigFile(Array(<<"A", "B">>), Falsy, Falsy),
      ConfigFile(Falsy, Absent, Absent),
      ConfigFile(Absent, Absent, Absent),
      ConfigFile(Other, Absent, Absent),
      ConfigFile(Array(<<"A">>), Other, Absent),
      ConfigFile(Array(<<"A">>), Absent, Other),
      [exists |-> TRUE, parses |-> FALSE, columns |-> Absent,
       columnsToRemove |-> Absent, duplicateCheckColumns |-> Absent],
      [exists |-> FALSE, parses |-> FALSE, columns |-> Absent,
       columnsToRemove |-> Absent, duplicateCheckColumns |-> Absent] }

DirEntries ==
    { <<"g", "h", "e", "c", "_", "a", ".", "c", "s", "v">>,
      <<"G", "H", "E", "S", "_", "b", ".", "C", "S", "V">>,
      <<"z", "z", "_", "a", ".", "c", "s", "v">>,
      <<"n", "o", "u", "s", ".", "c", "s", "v">>,
      <<"n", "o", "t", "e", "s", ".", "t", "x", "t">> }

\* Directory listings: distinct entries, in any order
Listings ==
    { l \in UNION { [1..n -> DirEntries] : n \in 0..MaxFiles } :
        \A j, k \in 1..Len(l) : j # k => l[j] # l[k] }

Directories2 == { [exists |-> FALSE, entries |-> <<>>] }
                    \cup { [exists |-> TRUE, entries |-> l] : l \in Listings }

HeaderRows ==
    { <<"A", "B">>, <<"B", "X", "A">>, <<"Enterprise", "A">> }

RowValues == {"", "1"}

RowLists == UNION { [1..n -> RowValues] : n \in 0..MaxRows }

\* A file with a header row and data rows
FileContents ==
    { [empty |-> FALSE, headers |-> h, rows |-> r] : h \in HeaderRows, r \in RowLists }

\* A zero-byte file
EmptyFile == [empty |-> TRUE, headers |-> <<>>, rows |-> <<>>]

-----------------------------------------------------------------------------
(* merger.ts: mergeCsvFiles and processCsvMerge, step by step              *)

Init ==
    /\ call = [fn |-> "main"]
    /\ ret = Pending
    /\ pc = "start"
    /\ cfgFile \in ConfigFiles
    /\ dir \in Directories2
    /\ columnConfig = NoConfig
    /\ csvFiles = <<>>
    /\ fileIdx = 0
    /\ enterprise = Undefined
    /\ disk = <<>>
    /\ openStreams = {}
    /\ result = EmptyResult
    /\ orderedRecords = <<>>
    /\ written = NotWritten
    /\ thrown = NotThrown
    /\ duplicateResults = <<>>
    /\ summary = NotPrinted
    /\ log = <<>>

Logged(op, k) == log' = Append(log, <<op, k>>)

CurrentFile == Basename(csvFiles[fileIdx], <<>>)

\* the outer catch pushes the message whether or not it is already listed
OuterCatchAlwaysPushes(errors, errorMsg) == Append(errors, errorMsg)

\* the outer catch of mergeCsvFiles: the message is pushed unless listed
OuterCatch(errors, errorMsg) ==
    IF errorMsg \in Range(errors) THEN errors ELSE Append(errors, errorMsg)

\* the inner catch of the file loop, then the outer catch
FileFails(cause) ==
    LET errorMsg == FileErrorMsg(CurrentFile, cause)
    IN  /\ result' = [result EXCEPT
                        !.success = FALSE,
                        !.errors = OuterCatch(Append(result.errors, errorMsg), errorMsg)]
        /\ pc' = "merged"

\* processCsvMerge: loadColumnConfig
LoadConfig ==
    /\ pc = "start"
    /\ LET loaded == LoadColumnConfig(cfgFile)
       IN  IF loaded.kind = "throw"
           THEN /\ pc' = "thrown"
                /\ thrown' = [kind |-> "Error loading column configuration",
                              cause |-> loaded.value, messages |-> <<>>]
                /\ UNCHANGED columnConfig
           ELSE /\ pc' = "merge"
                /\ columnConfig' = loaded.value
                /\ UNCHANGED thrown
    /\ Logged("loadColumnConfig", 0)
    /\ UNCHANGED <<harnessVars, openStreams, cfgFile, dir, csvFiles, fileIdx, enterprise, disk,
                   result, orderedRecords, written, duplicateResults, summary>>

\* the counter left at its initial value
TotalFilesNotSet(files) == 0

\* result.totalFiles = csvFiles.length
TotalFiles(files) == Len(files)

\* mergeCsvFiles: the result object, getCsvFiles, totalFiles
ListFiles ==
    /\ pc = "merge"
    /\ LET listed == GetCsvFiles(dir)
       IN  IF listed.kind = "throw"
           THEN /\ result' = [EmptyResult EXCEPT
                                !.errors = OuterCatch(<<>>, DirErrorMsg(listed.value))]
                /\ pc' = "merged"
                /\ UNCHANGED <<csvFiles, fileIdx>>
           ELSE /\ csvFiles' = listed.value
                /\ result' = [EmptyResult EXCEPT !.totalFiles = TotalFiles(listed.value)]
                /\ fileIdx' = 1
                /\ pc' = "resolve"
    /\ Logged("getCsvFiles", 0)
    /\ UNCHANGED <<harnessVars, openStreams, cfgFile, dir, columnConfig, enterprise, disk,
                   orderedRecords, written, thrown, duplicateResults, summary>>

\* the file loop: extractEnterprise of the current file
ResolveEnterprise ==
    /\ pc = "resolve"
    /\ LET resolved == ExtractEnterprise(CurrentFile)
       IN  IF resolved.kind = "throw"
           THEN /\ FileFails(resolved.value)
                /\ UNCHANGED enterprise
           ELSE /\ enterprise' = resolved.value
                /\ pc' = "headers"
                /\ UNCHANGED result
    /\ Logged("resolve", fileIdx)
    /\ UNCHANGED <<harnessVars, openStreams, cfgFile, dir, columnConfig, csvFiles, fileIdx, disk,
                   orderedRecords, written, thrown, duplicateResults, summary>>

\* getCsvHeaders resolved: the read stream is left as it is (not destroyed);
\* validateAndFilterColumns, warnings pushed
HeadersResolved ==
    /\ pc = "headers"
    /\ \E content \in FileContents :
        /\ disk' = Append(disk, content)
        /\ result' = [result EXCEPT !.errors = result.errors \o
                ValidateAndFilterColumns(csvFiles[fileIdx], content.headers,
                                         columnConfig).warnings]
    /\ openStreams' = openStreams \cup {fileIdx}
    /\ pc' = "read"
    /\ log' = log \o << <<"headers", fileIdx>>, <<"reconcile", fileIdx>> >>
    /\ UNCHANGED <<harnessVars, cfgFile, dir, columnConfig, csvFiles, fileIdx,
                   enterprise, orderedRecords, written, thrown, duplicateResults,
                   summary>>

\* getCsvHeaders rejected
HeadersRejected ==
    /\ pc = "headers"
    /\ \E cause \in {FileDoesNotExist, HeadersReadError} : FileFails(cause)
    /\ Logged("headers", fileIdx)
    /\ UNCHANGED <<harnessVars, openStreams, cfgFile, dir, columnConfig, csvFiles, fileIdx,
                   enterprise, disk, orderedRecords, written, thrown,
                   duplicateResults, summary>>

\* getCsvHeaders on a zero-byte file: no headers event, the promise stays pending
HeadersPending ==
    /\ pc = "headers"
    /\ disk' = Append(disk, EmptyFile)
    /\ pc' = "hung"
    /\ Logged("headers", fileIdx)
    /\ UNCHANGED <<harnessVars, openStreams, cfgFile, dir, columnConfig, csvFiles, fileIdx,
                   enterprise, result, orderedRecords, written, thrown,
                   duplicateResults, summary>>

\* the read stream getCsvHeaders left open reaches the end of its file and
\* closes, while readCsvFile reads the same file; a stream held back by an
\* unread parser buffer never does
HeaderStreamEnds ==
    /\ pc = "read"
    /\ fileIdx \in openStreams
    /\ openStreams' = openStreams \ {fileIdx}
    /\ UNCHANGED <<harnessVars, pc, cfgFile, dir, columnConfig, csvFiles, fileIdx,
                   enterprise, disk, result, orderedRecords, written, thrown,
                   duplicateResults, summary, log>>

\* readCsvFile resolved: records transformed and appended, then the next
\* file or the end of the loop
RecordsResolved ==
    /\ pc = "read"
    /\ LET records == FileRecords(disk[fileIdx])
           transformedRecords ==
               [k \in 1..Len(records) |->
                   TransformRecord(records[k], enterprise,
                                   Range(ColumnsToRemove(columnConfig)))]
       IN  result' = [result EXCEPT
                        !.records = result.records \o transformedRecords,
                        !.totalRecords = result.totalRecords + Len(records),
                        !.success = (fileIdx = Len(csvFiles))]
    /\ IF fileIdx < Len(csvFiles)
       THEN fileIdx' = fileIdx + 1 /\ pc' = "resolve"
       ELSE pc' = "merged" /\ UNCHANGED fileIdx
    /\ log' = log \o << <<"read", fileIdx>>, <<"append", fileIdx>> >>
    /\ UNCHANGED <<harnessVars, openStreams, cfgFile, dir, columnConfig, csvFiles, enterprise,
                   disk, orderedRecords, written, thrown, duplicateResults, summary>>

\* readCsvFile rejected
RecordsRejected ==
    /\ pc = "read"
    /\ \E cause \in {FileDoesNotExist, RecordsReadError} : FileFails(cause)
    /\ Logged("read", fileIdx)
    /\ UNCHANGED <<harnessVars, openStreams, cfgFile, dir, columnConfig, csvFiles, fileIdx,
                   enterprise, disk, orderedRecords, written, thrown,
                   duplicateResults, summary>>

\* the file stream of getCsvHeaders or readCsvFile emits an error (the path is
\* a directory, the file is unreadable, the read fails): the error listener
\* is on the parser, pipe forwards no error, so the error is uncaught, the
\* promise never settles and the process is terminated with code 1
ReadStreamError ==
    /\ pc \in {"headers", "read"}
    /\ ret.kind = "pending"
    /\ pc' = "crashed"
    /\ ret' = [kind |-> "exit", value |-> 1]
    /\ Logged(pc, fileIdx)
    /\ UNCHANGED <<call, openStreams, cfgFile, dir, columnConfig, csvFiles, fileIdx,
                   enterprise, disk, result, orderedRecords, written, thrown,
                   duplicateResults, summary>>

\* result.errors.filter(error => error.includes(marker))
Warnings(errors) == SelectSeq(errors, HasWarningMarker)

\* result.errors.filter(error => !error.includes(marker))
ActualErrors(errors) == SelectSeq(errors, LAMBDA m : ~HasWarningMarker(m))

\* no check of the merge result at all
MergeNeverFails(res) == FALSE

\* processCsvMerge throws "Merge failed" on this result
MergeFailed(res) == ~res.success \/ Len(ActualErrors(res.errors)) > 0

\* mergeCsvFiles returned: the checks, orderRecords, writeCsvFile invoked
MergeReturned ==
    /\ pc = "merged"
    /\ IF MergeFailed(result)
       THEN /\ pc' = "thrown"
            /\ thrown' = [kind |-> "Merge failed", cause |-> "",
                          messages |-> IF ~result.success THEN result.errors
                                       ELSE ActualErrors(result.errors)]
            /\ UNCHANGED <<orderedRecords, written, log>>
       ELSE /\ orderedRecords' = OrderRecords(result.records, columnConfig)
            /\ written' = [invoked |-> TRUE, completed |-> FALSE,
                           records |-> OrderRecords(result.records, columnConfig),
                           columns |-> OrderedColumns(columnConfig)]
            /\ pc' = "writing"
            /\ log' = log \o << <<"orderRecords", 0>>, <<"writeCsvFile", 0>> >>
            /\ UNCHANGED thrown
    /\ UNCHANGED <<harnessVars, openStreams, cfgFile, dir, columnConfig, csvFiles, fileIdx,
                   enterprise, disk, result, duplicateResults, summary>>

Summary ==
    [printed |-> TRUE,
     files |-> result.totalFiles,
     records |-> result.totalRecords,
     columns |-> Len(OrderedColumns(columnConfig)),
     warnings |-> Len(Warnings(result.errors)),
     removed |-> Len(ColumnsToRemove(columnConfig)),
     duplicateChecks |-> Len(columnConfig.duplicateCheckColumns.items)]

\* writeCsvFile resolved: the duplicate check if configured, then the summary
WriteResolved ==
    /\ pc = "writing"
    /\ written' = [written EXCEPT !.completed = TRUE]
    /\ LET checked == CheckForDuplicates(orderedRecords,
                                         columnConfig.duplicateCheckColumns.items)
       IN  IF DuplicateCheckConfigured(columnConfig) /\ checked.kind = "throw"
           THEN /\ pc' = "thrown"
                /\ thrown' = [kind |-> "TypeError", cause |-> checked.value,
                              messages |-> <<>>]
                /\ Logged("checkForDuplicates", 0)
                /\ UNCHANGED <<duplicateResults, summary>>
           ELSE /\ pc' = "done"
                /\ duplicateResults' =
                       IF DuplicateCheckConfigured(columnConfig)
                       THEN checked.value ELSE <<>>
                /\ summary' = Summary
                /\ log' = log \o
                       (IF DuplicateCheckConfigured(columnConfig)
                        THEN << <<"checkForDuplicates", 0>> >> ELSE <<>>)
                       \o << <<"summary", 0>> >>
                /\ UNCHANGED thrown
    /\ UNCHANGED <<harnessVars, openStreams, cfgFile, dir, columnConfig, csvFiles, fileIdx,
                   enterprise, disk, result, orderedRecords>>

\* writeCsvFile rejected
WriteRejected ==
    /\ pc = "writing"
    /\ pc' = "thrown"
    /\ thrown' = [kind |-> "Write failed", cause |-> "", messages |-> <<>>]
    /\ UNCHANGED <<harnessVars, openStreams, cfgFile, dir, columnConfig, csvFiles, fileIdx,
                   enterprise, disk, result, orderedRecords, written,
                   duplicateResults, summary, log>>

\* main: processCsvMerge returned, the success line is printed and the
\* process ends with code 0
MainReturns ==
    /\ pc = "done"
    /\ ret.kind = "pending"
    /\ ret' = [kind |-> "exit", value |-> 0]
    /\ UNCHANGED <<call, runVars>>

\* main: processCsvMerge threw, the catch calls process.exit(1)
MainCatches ==
    /\ pc = "thrown"
    /\ ret.kind = "pending"
    /\ ret' = [kind |-> "exit", value |-> 1]
    /\ UNCHANGED <<call, runVars>>

\* main is still awaiting a promise that never settles: the stream ended,
\* nothing is left to run, and the process ends with code 0
EventLoopDrains ==
    /\ pc = "hung"
    /\ ret.kind = "pending"
    /\ ret' = [kind |-> "exit", value |-> 0]
    /\ UNCHANGED <<call, runVars>>

Next ==
    \/ LoadConfig
    \/ ListFiles
    \/ ResolveEnterprise
    \/ HeadersResolved
    \/ HeadersRejected
    \/ HeadersPending
    \/ HeaderStreamEnds
    \/ RecordsResolved
    \/ RecordsRejected
    \/ ReadStreamError
    \/ MergeReturned
    \/ WriteResolved
    \/ WriteRejected
    \/ MainReturns
    \/ MainCatches
    \/ EventLoopDrains

Spec == Init /\ [][Next]_vars

-----------------------------------------------------------------------------
(* Properties of a run                                                     *)

\* The directory entry that is the f-th CSV file
EntryName(f) == SubSeq(csvFiles[f], Len(InputDir) + 2, Len(csvFiles[f]))

LastStep == log[Len(log)]

\* The processing of the current file failed, at the step logged last
FileFailed ==
    /\ pc \in {"merged", "thrown"}
    /\ Len(log) > 0
    /\ LastStep[1] \in {"resolve", "headers", "read"}

CausesOf(step) ==
    CASE step = "resolve" -> {InvalidFilenameFormat, UnknownEnterprisePrefix}
      [] step = "headers" -> {FileDoesNotExist, HeadersReadError}
      [] step = "read"    -> {FileDoesNotExist, RecordsReadError}

FatalFailure ==
    \/ pc # "start" /\ LoadColumnConfig(cfgFile).kind = "throw"
    \/ /\ Len(log) >= 2
       /\ ~dir.exists \/ \A k \in 1..Len(dir.entries) :
                            ~EndsWith(ToLowerCase(dir.entries[k]), DotCsv)
    \/ FileFailed

RECURSIVE Offset(_)
Offset(f) == IF f <= 1 THEN 0 ELSE Offset(f - 1) + Len(disk[f - 1].rows)

\* The tag of the f-th file's name
TagOf(f) == ExtractEnterprise(EntryName(f)).value

\* C5: in every merged record, and in every ordered record, the Enterprise
\* field is the tag resolved from the name of the record's file, also when
\* the source record has a column named Enterprise.
C5_ProvenanceWins ==
    result.success =>
        \A f \in 1..Len(disk) : \A r \in 1..Len(disk[f].rows) :
            /\ Get(result.records[Offset(f) + r], "Enterprise") = TagOf(f)
            /\ written.invoked =>
                  Get(orderedRecords[Offset(f) + r], "Enterprise") = TagOf(f)

\* C7: no column of columnsToRemove is a key of an ordered output record or
\* a member of the column sequence handed to writeCsvFile, also when the
\* configuration lists the column in columns too.
C7_ExcludedNeverInOutput ==
    written.invoked =>
        \A c \in Range(ColumnsToRemove(columnConfig)) :
            /\ c \notin Range(written.columns)
            /\ \A k \in 1..Len(written.records) : ~HasOwn(written.records[k], c)

\* A header in neither columns nor columnsToRemove
IsUnexpected(h) ==
    /\ \A k \in 1..Len(columnConfig.columns) : columnConfig.columns[k] # h
    /\ \A k \in 1..Len(columnConfig.columnsToRemove.items) :
          columnConfig.columnsToRemove.items[k] # h

\* C8: no ordered output record carries a value taken from a source column
\* that is unexpected (in neither columns nor columnsToRemove), whatever the
\* header's name, Enterprise included.  A non-blank cell names its column.
C8_UnexpectedNeverInOutput ==
    written.invoked =>
        \A f \in 1..Len(disk) : \A h \in Range(disk[f].headers) :
            IsUnexpected(h) =>
                \A k \in 1..Len(written.records) : \A e \in 1..Len(written.records[k]) :
                    \A v \in RowValues \ {""} :
                        written.records[k][e][2] # Cell(h, v)

UnexpectedOf(f) == SelectSeq(disk[f].headers, IsUnexpected)

RemovedOf(f) ==
    SelectSeq(disk[f].headers,
              LAMBDA h : \E k \in 1..Len(columnConfig.columnsToRemove.items) :
                            columnConfig.columnsToRemove.items[k] = h)

\* The warnings due for the first n files read
RECURSIVE ExpectedWarnings(_)
ExpectedWarnings(n) ==
    IF n = 0 THEN <<>>
    ELSE ExpectedWarnings(n - 1) \o
         (IF disk[n].empty \/ UnexpectedOf(n) = <<>> THEN <<>>
          ELSE <<WarningMsg(EntryName(n), UnexpectedOf(n))>>)

FilesWithUnexpected == { f \in 1..Len(disk) : UnexpectedOf(f) # <<>> }

\* C9: a header is unexpected iff it is in neither columns nor
\* columnsToRemove and excluded iff it is in columnsToRemove, both lists in
\* header order; each file read contributes one warning listing all its
\* unexpected headers if it has any and none otherwise, so after a
\* successful merge the warning count is the number of files with an
\* unexpected header.
C9_Reconciliation ==
    /\ Warnings(result.errors) = ExpectedWarnings(Len(disk))
    /\ \A f \in 1..Len(disk) :
          /\ UnexpectedColumns(disk[f].headers, columnConfig) = UnexpectedOf(f)
          /\ RemovedColumns(disk[f].headers, columnConfig) = RemovedOf(f)
    /\ result.success => Len(Warnings(result.errors)) = Cardinality(FilesWithUnexpected)
    /\ pc = "done" => summary.warnings = Cardinality(FilesWithUnexpected)

C9_Witness ==
    /\ pc = "done"
    /\ Len(disk) = 2
    /\ Cardinality(FilesWithUnexpected) = 1
    /\ Len(result.errors) = 1
    /\ summary.warnings = 1

\* The headers read so far that are marked for removal and not configured
ExcludedOnly ==
    { h \in UNION { Range(disk[f].headers) : f \in 1..Len(disk) } :
        /\ h \in Range(columnConfig.columnsToRemove.items)
        /\ h \notin Range(columnConfig.columns) }

\* C10: a header listed in columnsToRemove and not in columns produces no
\* warning and no entry of the message list, does not make the merge fail,
\* and does not count in the summary's warning total.
C10_ExcludedIsInformational ==
    /\ \A j \in 1..Len(result.errors) :
          Range(result.errors[j].columns) \cap ExcludedOnly = {}
    /\ (\A f \in 1..Len(disk) : \A h \in Range(disk[f].headers) :
            h \in ExcludedOnly \/ h \in Range(columnConfig.columns))
          => Warnings(result.errors) = <<>>
    /\ (pc = "merged" /\ ~result.success) => FatalFailure
    /\ pc = "done" =>
          summary.warnings =
              Cardinality({ f \in 1..Len(disk) :
                              \E h \in Range(disk[f].headers) :
                                  h \notin ExcludedOnly
                                  /\ h \notin Range(columnConfig.columns) })

C10_Witness ==
    /\ pc = "done"
    /\ ExcludedOnly # {}
    /\ result.errors = <<>>
    /\ summary.warnings = 0
    /\ Len(result.records) > 0

-----------------------------------------------------------------------------
(* orderRecords applied to generated records and configurations            *)

OrderColumnNames == {"A", "B", "Enterprise", "toString"}

ColumnLists == UNION { [1..n -> OrderColumnNames] : n \in 0..MaxCols }

\* The configurations loadColumnConfig accepts among the generated ones
AcceptedConfigs ==
    { LoadColumnConfig(ConfigFile(Array(c), Absent, Absent)).value : c \in ColumnLists }

\* Merged records as mergeCsvFiles builds them
MergedRecords ==
    { TransformRecord(RowObject(h, v), "GHEC", {}) :
        h \in { <<>>, <<"A">>, <<"B", "A">>, <<"X", "A">> }, v \in RowValues }

RecordLists == UNION { [1..n -> MergedRecords] : n \in 0..MaxRecords }

InitOrder ==
    /\ call \in { [fn |-> "orderRecords", records |-> r, config |-> c] :
                    r \in RecordLists, c \in AcceptedConfigs }
    /\ ret = Pending
    /\ RunIdle

CallOrderRecords ==
    /\ call.fn = "orderRecords"
    /\ ret.kind = "pending"
    /\ ret' = [kind |-> "return", value |-> OrderRecords(call.records, call.config)]
    /\ UNCHANGED <<call, runVars>>

\* orderRecords applied to what orderRecords returned
CallOrderRecordsAgain ==
    /\ call.fn = "orderRecords"
    /\ ret.kind = "return"
    /\ ret' = [kind |-> "returned twice",
               value |-> OrderRecords(ret.value, call.config),
               first |-> ret.value]
    /\ UNCHANGED <<call, runVars>>

NextOrder == CallOrderRecords \/ CallOrderRecordsAgain

SpecOrder == InitOrder /\ [][NextOrder]_vars

\* The own value of a key a record has
OwnValue(rec, key) == rec[CHOOSE k \in 1..Len(rec) : rec[k][1] = key][2]

\* C6: for every accepted configuration and every list of merged records,
\* each record orderRecords returns has exactly Len(columns) + 1 fields, its
\* keys are Enterprise followed by columns in configured order, a column the
\* source record lacks has the value "", and a column it has keeps its value.
C6_OutputRowShape ==
    (call.fn = "orderRecords" /\ ret.kind = "return") =>
        \A k \in 1..Len(ret.value) :
            LET out  == ret.value[k]
                src  == call.records[k]
                cols == call.config.columns
            IN  /\ Len(out) = Len(cols) + 1
                /\ Keys(out) = <<"Enterprise">> \o cols
                /\ \A c \in Range(cols) \cup {"Enterprise"} :
                      Get(out, c) = IF HasOwn(src, c) THEN OwnValue(src, c) ELSE ""

\* C11: orderRecords is idempotent: for every configuration and every list of
\* merged records, ordering the ordered records again gives the same records,
\* field for field and in the same key order.
C11_OrderIdempotent ==
    (call.fn = "orderRecords" /\ ret.kind = "returned twice") => ret.value = ret.first

C11_Witness ==
    /\ call.fn = "orderRecords"
    /\ ret.kind = "returned twice"
    /\ Len(ret.value) = 2
    /\ Len(call.config.columns) = 2
    /\ \E k \in 1..2 : call.records[k] # ret.first[k]
    /\ ret.value = ret.first

-----------------------------------------------------------------------------
(* checkForDuplicates applied to generated records and columns             *)

\* Cell values: empty, whitespace only, and values that differ by a trailing space
DupValues == {"", " ", "x", "x ", "y"}

\* Records with and without the column A
DupRecords ==
    { <<<<"Enterprise", "GHEC">>>> }
        \cup { <<<<"Enterprise", "GHEC">>, <<"A", v>>>> : v \in DupValues }

DupRecordLists == UNION { [1..n -> DupRecords] : n \in 0..MaxDupRecords }

CheckLists ==
    { <<"A">>, <<"A", "Enterprise">>, <<"Enterprise", "A">>, <<"Z", "A">>,
      <<"toString">> }

InitDup ==
    /\ call \in { [fn |-> "checkForDuplicates", records |-> r, columnsToCheck |-> c] :
                    r \in DupRecordLists, c \in CheckLists }
    /\ ret = Pending
    /\ RunIdle

CallCheckForDuplicates ==
    /\ call.fn = "checkForDuplicates"
    /\ ret.kind = "pending"
    /\ ret' = CheckForDuplicates(call.records, call.columnsToCheck)
    /\ UNCHANGED <<call, runVars>>

NextDup == CallCheckForDuplicates

SpecDup == InitDup /\ [][NextDup]_vars

\* The 1-based positions of the records whose column c holds v
Occurrences(records, c, v) ==
    { i \in 1..Len(records) : HasOwn(records[i], c) /\ OwnValue(records[i], c) = v }

\* The members of a set of numbers in ascending order
Ascending(S) ==
    [j \in 1..Cardinality(S) |->
        CHOOSE x \in S : Cardinality({ y \in S : y < x }) = j - 1]

\* Values that are not empty and not whitespace only
NonBlankValues == {"x", "x ", "y", "GHEC"}

\* C12: each report entry of checkForDuplicates lists exactly the values of
\* its column that are not blank or whitespace-only and occur in at least two
\* records, each once, with count = number of occurrences and rowNumbers =
\* (0-based index + 2) of the occurrences in ascending order; a column every
\* record has gets an entry, with no values when nothing repeats.
C12_DuplicateReportContent ==
    (call.fn = "checkForDuplicates" /\ ret.kind = "return") =>
        /\ \A c \in Range(call.columnsToCheck) :
              (Len(call.records) > 0 /\ \A i \in 1..Len(call.records) :
                                            HasOwn(call.records[i], c))
                 => \E e \in 1..Len(ret.value) : ret.value[e].column = c
        /\ \A e \in 1..Len(ret.value) :
              LET c  == ret.value[e].column
                  dv == ret.value[e].duplicateValues
              IN  /\ { dv[j].value : j \in 1..Len(dv) } =
                        { v \in NonBlankValues :
                            Cardinality(Occurrences(call.records, c, v)) >= 2 }
                  /\ \A j, k \in 1..Len(dv) : j # k => dv[j].value # dv[k].value
                  /\ \A j \in 1..Len(dv) :
                        LET occ == Occurrences(call.records, c, dv[j].value)
                        IN  /\ dv[j].count = Cardinality(occ)
                            /\ dv[j].rowNumbers = Ascending({ i + 1 : i \in occ })

\* Scenario C: values x, x, y in rows 2, 3, 4
C12_Witness ==
    /\ call.fn = "checkForDuplicates"
    /\ call.columnsToCheck = <<"A">>
    /\ [i \in 1..Len(call.records) |-> Get(call.records[i], "A")] = <<"x", "x", "y">>
    /\ ret = [kind |-> "return",
              value |-> <<[column |-> "A",
                           duplicateValues |->
                               <<[value |-> "x", count |-> 2, rowNumbers |-> <<2, 3>>]>>]>>]

FirstOccurrence(records, c, v) ==
    CHOOSE i \in Occurrences(records, c, v) :
        \A j \in Occurrences(records, c, v) : i <= j

\* C13: the report entries follow the order of columnsToCheck, and within a
\* column the duplicate values are in descending order of count, values of
\* equal count in the order of their first occurrence in the records.
C13_DuplicateReportOrder ==
    (call.fn = "checkForDuplicates" /\ ret.kind = "return") =>
        /\ [e \in 1..Len(ret.value) |-> ret.value[e].column] =
               SelectSeq(call.columnsToCheck,
                         LAMBDA c : \E e \in 1..Len(ret.value) : ret.value[e].column = c)
        /\ \A e \in 1..Len(ret.value) :
              LET c  == ret.value[e].column
                  dv == ret.value[e].duplicateValues
              IN  \A j, k \in 1..Len(dv) :
                     j < k =>
                        /\ dv[j].count >= dv[k].count
                        /\ dv[j].count = dv[k].count =>
                              FirstOccurrence(call.records, c, dv[j].value)
                                 < FirstOccurrence(call.records, c, dv[k].value)

\* x is seen first and twice, y later and three times: y is reported first
C13_Witness ==
    /\ call.fn = "checkForDuplicates"
    /\ call.columnsToCheck = <<"Enterprise", "A">>
    /\ [i \in 1..Len(call.records) |-> Get(call.records[i], "A")]
          = <<"x", "y", "y", "x", "y">>
    /\ ret.kind = "return"
    /\ Len(ret.value) = 2
    /\ ret.value[1].column = "Enterprise"
    /\ [j \in 1..2 |-> ret.value[2].duplicateValues[j].value] = <<"y", "x">>

\* C14: checkForDuplicates never throws, and leaves a checked column out of
\* the report if and only if no record has that column, whatever the records
\* (none, or records with different keys).
C14_AbsentColumnOmitted ==
    (call.fn = "checkForDuplicates" /\ ret.kind # "pending") =>
        /\ ret.kind = "return"
        /\ \A c \in Range(call.columnsToCheck) :
              (\E e \in 1..Len(ret.value) : ret.value[e].column = c)
                 <=> (\E i \in 1..Len(call.records) : HasOwn(call.records[i], c))

-----------------------------------------------------------------------------
(* Properties of a run: configuration, orchestration, outcome              *)

\* The configuration file is missing, is not JSON, has no columns array, or
\* has a columnsToRemove or duplicateCheckColumns that is not an array
ConfigInvalid(file) ==
    \/ ~file.exists
    \/ ~file.parses
    \/ file.columns.t # "array"
    \/ file.columnsToRemove.t \notin {"absent", "array"}
    \/ file.duplicateCheckColumns.t \notin {"absent", "array"}

\* processCsvMerge failed on the configuration with nothing else done
FailedBeforeMerge ==
    /\ pc = "thrown"
    /\ thrown.kind = "Error loading column configuration"
    /\ log = << <<"loadColumnConfig", 0>> >>
    /\ csvFiles = <<>>
    /\ disk = <<>>
    /\ result = EmptyResult
    /\ ~written.invoked

\* C15: when the configuration file is missing, is not valid JSON, has no
\* columns field or a non-array one, or has a non-array columnsToRemove or
\* duplicateCheckColumns, loadColumnConfig throws and processCsvMerge fails
\* before the input directory is listed or any input file is read.
C15_ConfigValidatedFirst ==
    (pc # "start" /\ ConfigInvalid(cfgFile)) => FailedBeforeMerge

\* C16: a configuration whose columns is an empty array is rejected before
\* any file is touched, and every configuration loadColumnConfig returns has
\* a non-empty columns array.
C16_EmptyColumnsRejected ==
    pc # "start" =>
        /\ cfgFile.columns = Array(<<>>) => FailedBeforeMerge
        /\ ~FailedBeforeMerge => columnConfig.columns # <<>>

\* The steps logged from position n on
LogFrom(n) == SubSeq(log, n, Len(log))

IsPrefix(a, b) == Len(a) <= Len(b) /\ \A j \in 1..Len(a) : a[j] = b[j]

\* The steps processCsvMerge performs after a successful merge
StepsAfterMerge ==
    << <<"orderRecords", 0>>, <<"writeCsvFile", 0>> >>
       \o (IF Len(columnConfig.duplicateCheckColumns.items) > 0
           THEN << <<"checkForDuplicates", 0>> >> ELSE <<>>)
       \o << <<"summary", 0>> >>

\* C17: after a successful merge the steps are orderRecords, writeCsvFile,
\* checkForDuplicates (only when duplicateCheckColumns is not empty) and the
\* summary, in this order; once mergeCsvFiles returned, processCsvMerge
\* stops before writeCsvFile only when the merge failed; and once the output
\* is written the run reaches the summary without throwing.
C17_OrchestrationOrder ==
    /\ (pc = "thrown" /\ ~written.invoked /\ ~FailedBeforeMerge)
          => (~result.success \/ Len(ActualErrors(result.errors)) > 0)
    /\ written.invoked =>
          /\ result.success
          /\ \E n \in 1..Len(log) :
                /\ IsPrefix(LogFrom(n), StepsAfterMerge)
                /\ \A j \in 1..(n - 1) : log[j][1] \notin Range(Keys(StepsAfterMerge))
    /\ written.completed =>
          /\ pc = "done"
          /\ summary.printed
          /\ \E n \in 1..Len(log) : LogFrom(n) = StepsAfterMerge

\* C18: a run of main that ended either met a fatal error and exited with a
\* non-zero code, or succeeded, wrote the output, printed the summary and
\* ended with code zero.
C18_CliOutcome ==
    ret.kind = "exit" =>
        \/ ret.value # 0 /\ (pc = "crashed" \/ (pc = "thrown" /\ thrown.kind # "none"))
        \/ /\ ret.value = 0
           /\ result.success
           /\ written.completed
           /\ summary.printed

\* The records of the f-th file were appended to the result
Appended(f) == \E j \in 1..Len(log) : log[j] = <<"append", f>>

\* C19: a file with unexpected headers does not make mergeCsvFiles return
\* success = false nor processCsvMerge throw "Merge failed": only a failed
\* step does; the file's records are merged and the next file is processed.
C19_UnexpectedDoesNotStop ==
    /\ (pc = "merged" /\ ~result.success) => FatalFailure
    /\ (pc = "thrown" /\ thrown.kind = "Merge failed") => FatalFailure
    /\ \A f \in FilesWithUnexpected :
          Appended(f) =>
             /\ Len(result.records) >= Offset(f) + Len(disk[f].rows)
             /\ f < Len(csvFiles) =>
                   \/ pc = "resolve" /\ fileIdx = f + 1
                   \/ \E j \in 1..Len(log) : log[j] = <<"resolve", f + 1>>
             /\ f = Len(csvFiles) => result.success

C19_Witness ==
    /\ pc = "done"
    /\ Len(disk) = 2
    /\ 1 \in FilesWithUnexpected
    /\ Len(disk[1].rows) = 1
    /\ Len(disk[2].rows) = 1
    /\ Len(result.records) = 2
    /\ written.completed

\* C20: every header that occurs in an input file is a column of the
\* written output.
C20_AllSourceColumnsInOutput ==
    written.invoked =>
        \A f \in 1..Len(disk) : \A h \in Range(disk[f].headers) :
            h \in Range(written.columns)

-----------------------------------------------------------------------------
(* Properties of a run: ingestion                                          *)

FileSteps == <<"resolve", "headers", "reconcile", "read", "append">>

StepNo(name) == CHOOSE i \in 1..Len(FileSteps) : FileSteps[i] = name

\* The per-file steps performed so far
FileLog == SelectSeq(log, LAMBDA e : e[2] >= 1)

\* The files that have a read stream open
BeingRead ==
    openStreams \cup (IF pc \in {"headers", "read"} THEN {fileIdx} ELSE {})

\* C21: the per-file steps occur in the order resolve, headers, reconcile,
\* read, append; the first step of file k+1 comes only after the records of
\* file k were appended; and at no point are two files being read.
C21_SequentialIngestion ==
    /\ \A j \in 1..Len(FileLog) :
          IF j = 1 THEN FileLog[j] = <<"resolve", 1>>
          ELSE \/ /\ FileLog[j][2] = FileLog[j - 1][2]
                  /\ StepNo(FileLog[j][1]) = StepNo(FileLog[j - 1][1]) + 1
               \/ /\ FileLog[j][2] = FileLog[j - 1][2] + 1
                  /\ FileLog[j][1] = "resolve"
                  /\ FileLog[j - 1][1] = "append"
    /\ Cardinality(BeingRead) <= 1

\* The number of files whose records were appended
AppendedFiles == Cardinality({ f \in 1..Len(disk) : Appended(f) })

C23_FileCounter ==
    pc = "merged" => result.totalFiles = AppendedFiles

\* C23 as amended: totalFiles is set once, to the number of CSV files listed,
\* before any file is processed (0 when the listing failed); in the result of
\* a successful merge it is the number of files whose records were appended.
C23_FileCounterIsListingSize ==
    /\ result.totalFiles = Len(csvFiles)
    /\ (pc = "merged" /\ result.success) => result.totalFiles = AppendedFiles

C23_Witness ==
    /\ pc = "merged"
    /\ ~result.success
    /\ result.totalFiles = 2
    /\ AppendedFiles = 1
    /\ Len(result.records) = 1

\* C24: an error raised while an existing file is read, on the file stream or
\* in the parser, makes getCsvHeaders or readCsvFile reject, so that
\* mergeCsvFiles returns success = false with a message that names the file;
\* a missing path is reported with another message than a read failure.
C24_ReaderFailuresReported ==
    /\ pc # "crashed"
    /\ (FileFailed /\ LastStep[1] \in {"headers", "read"}) =>
          /\ ~result.success
          /\ result.errors[Len(result.errors)].file = EntryName(LastStep[2])
          /\ result.errors[Len(result.errors)].cause
                \in {FileDoesNotExist, HeadersReadError, RecordsReadError}
    /\ FileDoesNotExist \notin {HeadersReadError, RecordsReadError}

\* mergeCsvFiles was called and has returned its result
MergeHasReturned == pc \in {"merged", "writing", "done"} \/ (pc = "thrown" /\ ~FailedBeforeMerge)

\* C27: for every existing input file, a zero-byte file included, the
\* promise of getCsvHeaders settles: it is never left pending after its
\* stream ended, and no run ends while mergeCsvFiles is waiting for headers.
C27_IngestionTerminates ==
    /\ pc # "hung"
    /\ \A f \in 1..Len(disk) :
          (disk[f].empty /\ ret.kind = "exit") => MergeHasReturned

C25_ExcludedNotDuplicateChecked ==
    pc = "done" =>
        \A c \in Range(columnConfig.duplicateCheckColumns.items)
                    \cap Range(ColumnsToRemove(columnConfig)) :
            \A e \in 1..Len(duplicateResults) : duplicateResults[e].column # c

-----------------------------------------------------------------------------
(* orderRecords, filterRecord and checkForDuplicates applied to objects on *)
(* a heap: a heap is a sequence of objects, a reference is an index in it, *)
(* and each assignment of the code names the object it writes to           *)

\* target[key] = value
Assign(heap, target, key, value) ==
    [heap EXCEPT ![target] = Set(heap[target], key, value)]

\* the for loop of orderRecords: orderedRecord[column] = record[column] || ""
RECURSIVE AssignOrdered(_, _, _, _)
AssignOrdered(heap, orderedRecord, record, columns) ==
    IF columns = <<>> THEN heap
    ELSE AssignOrdered(
            Assign(heap, orderedRecord, columns[1],
                   OrElse(Get(heap[record], columns[1]), "")),
            orderedRecord, record, Tail(columns))

\* the record itself is completed and returned, no object is created
OrderRecordInPlace(heap, record, columns) ==
    [heap |-> AssignOrdered(heap, record, record, columns), ref |-> record]

\* the map callback of orderRecords: a new object { Enterprise: "" }, filled
\* from the record
OrderRecordOnHeap(heap, record, columns) ==
    LET allocated     == Append(heap, <<<<"Enterprise", "">>>>)
        orderedRecord == Len(allocated)
    IN  [heap |-> AssignOrdered(allocated, orderedRecord, record, columns),
         ref  |-> orderedRecord]

\* records.map(...)
RECURSIVE MapOrderRecord(_, _, _, _)
MapOrderRecord(heap, records, columns, mapped) ==
    IF records = <<>> THEN [heap |-> heap, value |-> mapped]
    ELSE LET ordered == OrderRecordOnHeap(heap, records[1], columns)
         IN  MapOrderRecord(ordered.heap, Tail(records), columns,
                            Append(mapped, ordered.ref))

OrderRecordsOnHeap(heap, records, config) ==
    MapOrderRecord(heap, records, OrderedColumns(config), <<>>)

\* the for loop of filterRecord: filteredRecord[key] = value
RECURSIVE AssignFiltered(_, _, _, _)
AssignFiltered(heap, filteredRecord, entries, columnsToRemove) ==
    IF entries = <<>> THEN heap
    ELSE AssignFiltered(
            IF entries[1][1] \notin columnsToRemove
            THEN Assign(heap, filteredRecord, entries[1][1], entries[1][2])
            ELSE heap,
            filteredRecord, Tail(entries), columnsToRemove)

\* filterRecord: a new object {}, filled from the entries of the record
FilterRecordOnHeap(heap, record, columnsToRemove) ==
    LET allocated      == Append(heap, <<>>)
        filteredRecord == Len(allocated)
    IN  [heap  |-> AssignFiltered(allocated, filteredRecord, heap[record],
                                  columnsToRemove),
         value |-> <<filteredRecord>>]

\* checkForDuplicates reads the records and assigns to none of them
CheckForDuplicatesOnHeap(heap, records, columnsToCheck) ==
    [heap  |-> heap,
     value |-> CheckForDuplicates([k \in 1..Len(records) |-> heap[records[k]]],
                                  columnsToCheck)]

\* Record shapes: empty, provenance only, a missing key, extra keys
HeapRecords ==
    { <<>>,
      <<<<"Enterprise", "GHEC">>>>,
      <<<<"Enterprise", "GHEC">>, <<"A", "x">>>>,
      <<<<"X", "y">>, <<"A", "x">>, <<"Enterprise", "GHEC">>, <<"B", "">>>> }

Heaps == UNION { [1..n -> HeapRecords] : n \in 0..MaxHeap }

HeapColumnLists == { <<>>, <<"A">>, <<"B", "A">>, <<"X", "Enterprise">> }

\* All the records of the heap in order, or the first one twice
RecordArrays(heap) ==
    { [k \in 1..Len(heap) |-> k] }
        \cup (IF Len(heap) > 0 THEN { <<1, 1>> } ELSE {})

InitPure ==
    /\ call \in { [fn |-> f, heap |-> h, records |-> r, columns |-> c] :
                    f \in {"orderRecords", "filterRecord", "checkForDuplicates"},
                    h \in Heaps, r \in UNION { RecordArrays(g) : g \in Heaps },
                    c \in HeapColumnLists }
    /\ call.records \in RecordArrays(call.heap)
    /\ call.fn = "filterRecord" => Len(call.records) > 0
    /\ ret = Pending
    /\ RunIdle

CallOrderRecordsOnHeap ==
    /\ call.fn = "orderRecords"
    /\ ret.kind = "pending"
    /\ LET done == OrderRecordsOnHeap(call.heap, call.records,
                                      [NoConfig EXCEPT !.columns = call.columns])
       IN  ret' = [kind |-> "return", value |-> done.value, heap |-> done.heap]
    /\ UNCHANGED <<call, runVars>>

CallFilterRecordOnHeap ==
    /\ call.fn = "filterRecord"
    /\ ret.kind = "pending"
    /\ LET done == FilterRecordOnHeap(call.heap, call.records[1], Range(call.columns))
       IN  ret' = [kind |-> "return", value |-> done.value, heap |-> done.heap]
    /\ UNCHANGED <<call, runVars>>

CallCheckForDuplicatesOnHeap ==
    /\ call.fn = "checkForDuplicates"
    /\ ret.kind = "pending"
    /\ LET done == CheckForDuplicatesOnHeap(call.heap, call.records, call.columns)
       IN  ret' = [kind |-> done.value.kind, value |-> done.value.value,
                   heap |-> done.heap]
    /\ UNCHANGED <<call, runVars>>

NextPure ==
    \/ CallOrderRecordsOnHeap
    \/ CallFilterRecordOnHeap
    \/ CallCheckForDuplicatesOnHeap

SpecPure == InitPure /\ [][NextPure]_vars

\* C26: orderRecords, filterRecord and checkForDuplicates leave every object
\* they were given as it was (same keys, same values, same order) and the
\* objects they return are new ones; orderRecords returns, without throwing,
\* one record with the keys Enterprise and columns for each record given,
\* whatever the record's shape, and filterRecord returns the entries of its
\* record whose key is not removed, in their order.
C26_Purity ==
    ret.kind # "pending" =>
        /\ Len(ret.heap) >= Len(call.heap)
        /\ \A i \in 1..Len(call.heap) : ret.heap[i] = call.heap[i]
        /\ call.fn = "orderRecords" =>
              /\ ret.kind = "return"
              /\ Len(ret.value) = Len(call.records)
              /\ \A k \in 1..Len(ret.value) :
                    /\ ret.value[k] \notin 1..Len(call.heap)
                    /\ \A j \in 1..Len(ret.value) : j # k => ret.value[j] # ret.value[k]
                    /\ Range(Keys(ret.heap[ret.value[k]]))
                          = {"Enterprise"} \cup Range(call.columns)
        /\ call.fn = "filterRecord" =>
              /\ ret.kind = "return"
              /\ ret.value[1] \notin 1..Len(call.heap)
              /\ ret.heap[ret.value[1]] =
                    SelectSeq(call.heap[call.records[1]],
                              LAMBDA e : e[1] \notin Range(call.columns))

C26_Witness ==
    /\ call.fn = "orderRecords"
    /\ ret.kind = "return"
    /\ call.records = <<1, 2>>
    /\ call.heap[1] = <<>>
    /\ Len(call.heap[2]) = 4
    /\ call.columns = <<"B", "A">>
    /\ ret.value = <<3, 4>>
    /\ ret.heap[1] = <<>>
    /\ ret.heap[4] = <<<<"Enterprise", "GHEC">>, <<"B", "">>, <<"A", "x">>>>

====
